---------------------------- MODULE Spec2Model ----------------------------
(***************************************************************************)
(* Model of txt-sentencers_cn: the extractor/splitter/cleaner pipeline of  *)
(* src/main.go (three outputs) and the sibling rewriter of                 *)
(* src/unnamed/part_000 (one "_sc" output).                                *)
(*                                                                         *)
(* A Go string is modelled as a sequence of characters (runes); a          *)
(* character is a TLA+ string: an ASCII character stands for itself, a     *)
(* non-ASCII one is written as its code point ("U+3002"), and "han"/"han2" *)
(* stand for two ideographs of \p{Han}.                                    *)
(***************************************************************************)
EXTENDS Integers, Sequences, FiniteSets, TLC

VARIABLES
    pc,                 \* control location of the running entry point
    inputContent,       \* content of the file the picker's path names
    scanPos,            \* number of lines bufio.Scanner has delivered
    scanErr,            \* scanner.Err() # nil
    chineseSentences,   \* main.go:67
    englishSentences,   \* main.go:68
    combinedSentences,  \* main.go:69
    outIdx,             \* which of the three writeCleanedContent calls runs
    wccErr,             \* the error writeCleanedContent is about to return
    disk,               \* output path -> [exists, data]
    openHandles,        \* file handles currently open
    everOpened,         \* file handles opened so far in the run
    deferred,           \* file handles with a pending deferred Close
    createLog,          \* output paths in the order os.Create was called
    processedContent,   \* part_000:65
    cleanedLines,       \* part_000:68
    stdout,             \* messages printed so far
    exitCode,           \* process exit status, NoExit while running
    fnIn,               \* function harness: the input buffer
    fnStage,            \* function harness: which function was applied
    fnOut,              \* function harness: the result buffer
    fnPrev,             \* function harness: the previous result buffer
    fnSegs              \* function harness: the extractor's match list

vars == <<pc, inputContent, scanPos, scanErr, chineseSentences,
          englishSentences, combinedSentences, outIdx, wccErr, disk,
          openHandles, everOpened, deferred, createLog, processedContent,
          cleanedLines, stdout, exitCode,
          fnIn, fnStage, fnOut, fnPrev, fnSegs>>

-----------------------------------------------------------------------------
(* Bounds of the model *)

\* longest input file content (in characters) of the main mode
MaxLen == 4
\* longest input file content of the sibling mode
MaxSibLen == 4
\* longest buffer handed to a function in the function harness
MaxBuf == 4

-----------------------------------------------------------------------------
(* Characters *)

LF == "\n"
CR == "\r"
TAB == "\t"
FF == "\f"
VT == "U+000B"
SP == " "

\* representatives of \p{Han}; U+4E28 is itself an ideograph
Han == {"han", "han2", "U+4E28"}
\* representatives of a-z and A-Z
AsciiLetter == {"a", "b", "z", "A", "Z"}
\* 0-9, which is also what \d matches
AsciiDigit == {"0", "1", "9"}
\* U+FF10 .. U+FF19
FullwidthDigit == {"U+FF10", "U+FF11", "U+FF19"}
\* \s of Go's regexp (RE2): [\t\n\f\r ]
ReSpace == {TAB, LF, FF, CR, SP}
\* unicode.IsSpace, which strings.TrimSpace trims
GoSpace == {TAB, LF, VT, FF, CR, SP, "U+0085", "U+00A0", "U+3000"}

\* main.go:63  [\p{Han}\d０-９。，！？：；（）【】《》“”‘’\-:.\s︱、\\]
chineseSentenceRegex ==
    Han \cup AsciiDigit \cup FullwidthDigit \cup
    {"U+3002", "U+FF0C", "U+FF01", "U+FF1F", "U+FF1A", "U+FF1B",
     "U+FF08", "U+FF09", "U+3010", "U+3011", "U+300A", "U+300B",
     "U+201C", "U+201D", "U+2018", "U+2019", "-", ":", "."} \cup
    ReSpace \cup {"U+FE31", "U+3001", "\\"}

\* main.go:64  [a-zA-Z0-9.,!?;:'"()\-:\s|\\]
englishSentenceRegex ==
    AsciiLetter \cup AsciiDigit \cup
    {".", ",", "!", "?", ";", ":", "'", "\"", "(", ")", "-"} \cup
    ReSpace \cup {"|", "\\"}

\* main.go:140  [︱|丨，,，。.?？/\\、：;；:——……“"”！!]
splitPattern ==
    {"U+FE31", "|", "U+4E28", "U+FF0C", ",", "U+3002", ".", "?", "U+FF1F",
     "/", "\\", "U+3001", "U+FF1A", ";", "U+FF1B", ":", "U+2014", "U+2026",
     "U+201C", "\"", "U+201D", "U+FF01", "!"}

\* main.go:168  ^[.,!?;:'【】。、：；……——！丨︱-]+$
punctuationOnlyRegex ==
    {".", ",", "!", "?", ";", ":", "'", "U+3010", "U+3011", "U+3002",
     "U+3001", "U+FF1A", "U+FF1B", "U+2026", "U+2014", "U+FF01", "U+4E28",
     "U+FE31", "-"}

\* part_000:62  [，。？：！；、……——]
punctuationRegex ==
    {"U+FF0C", "U+3002", "U+FF1F", "U+FF1A", "U+FF01", "U+FF1B", "U+3001",
     "U+2026", "U+2014"}

-----------------------------------------------------------------------------
(* Strings *)

\* all strings over alphabet A of length at most n
StringsUpTo(A, n) == UNION {[1..k -> A] : k \in 0..n}

\* position of the first occurrence of character c in s at or after from,
\* 0 when there is none (strings.Index)
RECURSIVE IndexFrom(_, _, _)
IndexFrom(s, c, from) ==
    IF from > Len(s) THEN 0
    ELSE IF s[from] = c THEN from
    ELSE IndexFrom(s, c, from + 1)

\* strings.Split(s, "\n"): always at least one element
RECURSIVE Split(_)
Split(s) ==
    LET i == IndexFrom(s, LF, 1)
    IN  IF i = 0 THEN <<s>>
        ELSE <<SubSeq(s, 1, i - 1)>> \o Split(SubSeq(s, i + 1, Len(s)))

\* strings.Join(lines, "\n")
RECURSIVE Join(_)
Join(lines) ==
    IF Len(lines) = 0 THEN <<>>
    ELSE IF Len(lines) = 1 THEN lines[1]
    ELSE lines[1] \o <<LF>> \o Join(Tail(lines))

\* strings.TrimLeftFunc(s, unicode.IsSpace)
RECURSIVE TrimLeft(_)
TrimLeft(s) ==
    IF Len(s) > 0 /\ s[1] \in GoSpace THEN TrimLeft(Tail(s)) ELSE s

\* strings.TrimRightFunc(s, unicode.IsSpace)
RECURSIVE TrimRight(_)
TrimRight(s) ==
    IF Len(s) > 0 /\ s[Len(s)] \in GoSpace
    THEN TrimRight(SubSeq(s, 1, Len(s) - 1)) ELSE s

\* faulty variant: only leading whitespace is trimmed
TrimSpace_LeftOnly(s) == TrimLeft(s)

\* strings.TrimSpace
TrimSpace(s) == TrimRight(TrimLeft(s))

-----------------------------------------------------------------------------
(* regexp: a pattern [class]+ or ([class]) is given by its character class *)

\* faulty variant: a lazy quantifier ([class]+?), a match ends at its first character
MatchEnd_Lazy(s, class, i) == i

\* end of the leftmost-longest match of [class]+ that starts at position i
RECURSIVE MatchEnd(_, _, _)
MatchEnd(s, class, i) ==
    IF i < Len(s) /\ s[i + 1] \in class THEN MatchEnd(s, class, i + 1) ELSE i

\* first position at or after from whose character is in class, 0 if none
RECURSIVE MatchStart(_, _, _)
MatchStart(s, class, from) ==
    IF from > Len(s) THEN 0
    ELSE IF s[from] \in class THEN from
    ELSE MatchStart(s, class, from + 1)

\* regexp.FindAllStringIndex for [class]+ : the successive non-overlapping
\* matches <<first, last>>, the search resuming after each match
RECURSIVE FindAllIndex(_, _, _)
FindAllIndex(s, class, from) ==
    LET i == MatchStart(s, class, from)
    IN  IF i = 0 THEN <<>>
        ELSE LET j == MatchEnd(s, class, i)
             IN  <<(<<i, j>>)>> \o FindAllIndex(s, class, j + 1)

\* regexp.MustCompile("[class]+").FindAllString(line, -1)
FindAllString(class, line) ==
    LET idx == FindAllIndex(line, class, 1)
    IN  [k \in 1..Len(idx) |-> SubSeq(line, idx[k][1], idx[k][2])]

\* regexp.MustCompile("([class])").ReplaceAllString(src, "$1\n"): the text
\* between matches is copied, each match is replaced by the expansion of the
\* template, which is group 1 (the matched character) followed by "\n"
RECURSIVE ReplaceAllString(_, _, _)
ReplaceAllString(class, src, from) ==
    LET i == MatchStart(src, class, from)
    IN  IF i = 0 THEN SubSeq(src, from, Len(src))
        ELSE SubSeq(src, from, i - 1) \o <<src[i], LF>>
             \o ReplaceAllString(class, src, i + 1)

\* re.MatchString(s) for ^[class]+$
MatchWhole(class, s) == Len(s) > 0 /\ \A k \in 1..Len(s) : s[k] \in class

-----------------------------------------------------------------------------
(* The functions of src/main.go *)

\* faulty variant: no terminator is inserted where one already follows
RECURSIVE splitAfterPunctuation_SkipExisting(_)
splitAfterPunctuation_SkipExisting(content) ==
    IF Len(content) = 0 THEN <<>>
    ELSE (IF /\ content[1] \in splitPattern
             /\ ~(Len(content) > 1 /\ content[2] = LF)
          THEN <<content[1], LF>> ELSE <<content[1]>>)
         \o splitAfterPunctuation_SkipExisting(Tail(content))

\* main.go:138-145
splitAfterPunctuation(content) == ReplaceAllString(splitPattern, content, 1)

\* main.go:148-150
joinLines(lines) == Join(lines)

\* the loop of main.go:156-161 over lines[k..]
RECURSIVE nonEmptyLines(_)
nonEmptyLines(lines) ==
    IF Len(lines) = 0 THEN <<>>
    ELSE LET trimmed == TrimSpace(lines[1])
         IN  (IF trimmed # <<>> THEN <<trimmed>> ELSE <<>>)
             \o nonEmptyLines(Tail(lines))

\* main.go:153-163
removeEmptyLines(content) == Join(nonEmptyLines(Split(content)))

\* faulty variant: the pattern is matched against the untrimmed line
RECURSIVE nonPunctuationLines_MatchUntrimmed(_)
nonPunctuationLines_MatchUntrimmed(lines) ==
    IF Len(lines) = 0 THEN <<>>
    ELSE LET trimmed == TrimSpace(lines[1])
         IN  (IF trimmed # <<>> /\ ~MatchWhole(punctuationOnlyRegex, lines[1])
              THEN <<trimmed>> ELSE <<>>)
             \o nonPunctuationLines_MatchUntrimmed(Tail(lines))

\* the loop of main.go:173-178
RECURSIVE nonPunctuationLines(_)
nonPunctuationLines(lines) ==
    IF Len(lines) = 0 THEN <<>>
    ELSE LET trimmed == TrimSpace(lines[1])
         IN  (IF trimmed # <<>> /\ ~MatchWhole(punctuationOnlyRegex, trimmed)
              THEN <<trimmed>> ELSE <<>>)
             \o nonPunctuationLines(Tail(lines))

\* main.go:166-180
removePunctuationOnlyLines(content) == Join(nonPunctuationLines(Split(content)))

\* the cleaner: the punctuation-only filter (main.go:98) followed by the
\* empty-line filter (main.go:122)
cleaner(content) == removeEmptyLines(removePunctuationOnlyLines(content))

\* the content writeCleanedContent writes for a segment list (main.go:98, 122)
cleanContent(sentences) ==
    removeEmptyLines(
        removePunctuationOnlyLines(splitAfterPunctuation(joinLines(sentences))))

-----------------------------------------------------------------------------
(* The values the variables of one part hold while another part runs *)

Outputs == <<"pure_chinese_sentences.txt", "pure_english_sentences.txt",
             "combined_sentences.txt">>
SiblingOutput == "input_sc.txt"
Paths == {Outputs[k] : k \in 1..3} \cup {SiblingOutput}
NoExit == -1
Absent == [exists |-> FALSE, data |-> <<>>]

ProgramIdle ==
    /\ pc = "idle"
    /\ inputContent = <<>>
    /\ scanPos = 0
    /\ scanErr = FALSE
    /\ chineseSentences = <<>>
    /\ englishSentences = <<>>
    /\ combinedSentences = <<>>
    /\ outIdx = 0
    /\ wccErr = FALSE
    /\ disk = [p \in Paths |-> Absent]
    /\ openHandles = {}
    /\ everOpened = {}
    /\ deferred = {}
    /\ createLog = <<>>
    /\ processedContent = <<>>
    /\ cleanedLines = <<>>
    /\ stdout = <<>>
    /\ exitCode = NoExit

programVars == <<pc, inputContent, scanPos, scanErr, chineseSentences,
                 englishSentences, combinedSentences, outIdx, wccErr, disk,
                 openHandles, everOpened, deferred, createLog,
                 processedContent, cleanedLines, stdout, exitCode>>

FnIdle ==
    /\ fnIn = <<>>
    /\ fnStage = "idle"
    /\ fnOut = <<>>
    /\ fnPrev = <<>>
    /\ fnSegs = <<>>

fnVars == <<fnIn, fnStage, fnOut, fnPrev, fnSegs>>

-----------------------------------------------------------------------------
(* The functions applied to every bounded buffer *)

FnAlphabet == {"han", "a", ".", "U+FF0C", SP, LF}

FnInit ==
    /\ ProgramIdle
    /\ fnIn \in StringsUpTo(FnAlphabet, MaxBuf)
    /\ fnStage = "in"
    /\ fnOut = <<>>
    /\ fnPrev = <<>>
    /\ fnSegs = <<>>

\* main.go:138  splitAfterPunctuation(fnIn)
ApplySplit ==
    /\ fnStage = "in"
    /\ fnOut' = splitAfterPunctuation(fnIn)
    /\ fnStage' = "split"
    /\ UNCHANGED <<fnIn, fnPrev, fnSegs, programVars>>

\* main.go:98, 122  the cleaner applied to fnIn
ApplyCleaner ==
    /\ fnStage = "in"
    /\ fnOut' = cleaner(fnIn)
    /\ fnStage' = "clean"
    /\ UNCHANGED <<fnIn, fnPrev, fnSegs, programVars>>

\* the cleaner applied to its own result
ApplyCleanerAgain ==
    /\ fnStage = "clean"
    /\ fnPrev' = fnOut
    /\ fnOut' = cleaner(fnOut)
    /\ fnStage' = "clean2"
    /\ UNCHANGED <<fnIn, fnSegs, programVars>>

\* main.go:77  the Chinese-class matches of the line fnIn
ApplyExtractChinese ==
    /\ fnStage = "in"
    /\ \A k \in 1..Len(fnIn) : fnIn[k] # LF
    /\ fnSegs' = FindAllString(chineseSentenceRegex, fnIn)
    /\ fnStage' = "chinese"
    /\ UNCHANGED <<fnIn, fnOut, fnPrev, programVars>>

\* main.go:84  the Latin-class matches of the line fnIn
ApplyExtractEnglish ==
    /\ fnStage = "in"
    /\ \A k \in 1..Len(fnIn) : fnIn[k] # LF
    /\ fnSegs' = FindAllString(englishSentenceRegex, fnIn)
    /\ fnStage' = "english"
    /\ UNCHANGED <<fnIn, fnOut, fnPrev, programVars>>

FnNext ==
    \/ ApplySplit
    \/ ApplyCleaner
    \/ ApplyCleanerAgain
    \/ ApplyExtractChinese
    \/ ApplyExtractEnglish

SpecFn == FnInit /\ [][FnNext]_vars

-----------------------------------------------------------------------------
(* The main mode: func main of src/main.go *)

\* an ideograph, a letter, a digit and a full stop (both of the two run
\* classes; the full stop is also a splitter and a punctuation-only
\* character), a space and the line terminator
MainAlphabet == {"han", "a", "1", ".", SP, LF}

\* what the output paths hold before the run: the Chinese and the Combined
\* output are left over from an earlier run, the Latin output does not exist
OldData == <<"o", "l", "d", LF>>
InitialDisk ==
    [p \in Paths |->
        IF p \in {Outputs[1], Outputs[3]}
        THEN [exists |-> TRUE, data |-> OldData] ELSE Absent]

\* bufio.ScanLines: an optional trailing carriage return is dropped
dropCR(data) ==
    IF Len(data) > 0 /\ data[Len(data)] = CR
    THEN SubSeq(data, 1, Len(data) - 1) ELSE data

\* the tokens bufio.Scanner delivers for a file content (main.go:72-74,
\* part_000:69-71): the text up to each "\n", and a final unterminated line
\* when it is not empty
RECURSIVE ScanLines(_)
ScanLines(data) ==
    IF data = <<>> THEN <<>>
    ELSE LET i == IndexFrom(data, LF, 1)
         IN  IF i = 0 THEN <<dropCR(data)>>
             ELSE <<dropCR(SubSeq(data, 1, i - 1))>>
                  \o ScanLines(SubSeq(data, i + 1, Len(data)))

\* main.go:77, 84
chineseMatches(line) == FindAllString(chineseSentenceRegex, line)
englishMatches(line) == FindAllString(englishSentenceRegex, line)

\* faulty variant: the Latin matches are appended before the Chinese ones
combinedAfter_EnglishFirst(combined, line) ==
    combined \o englishMatches(line) \o chineseMatches(line)

\* faulty variant: the Latin matches are not added to the Combined list
combinedAfter_NoEnglish(combined, line) ==
    combined \o chineseMatches(line)

\* main.go:78-88: the Combined list after the loop body ran on line
combinedAfter(combined, line) ==
    combined \o chineseMatches(line) \o englishMatches(line)

\* the segment list of output k (main.go:98, 104, 110)
sentencesOf(k) ==
    IF k = 1 THEN chineseSentences
    ELSE IF k = 2 THEN englishSentences
    ELSE combinedSentences

\* main.go:100, 106, 112
WriteErrorMessage(k) ==
    IF k = 1 THEN "Error writing to Chinese sentences file"
    ELSE IF k = 2 THEN "Error writing to English sentences file"
    ELSE "Error writing to Combined sentences file"

MainInit ==
    /\ FnIdle
    /\ pc = "pick"
    /\ inputContent \in StringsUpTo(MainAlphabet, MaxLen)
    /\ scanPos = 0
    /\ scanErr = FALSE
    /\ chineseSentences = <<>>
    /\ englishSentences = <<>>
    /\ combinedSentences = <<>>
    /\ outIdx = 0
    /\ wccErr = FALSE
    /\ disk = InitialDisk
    /\ openHandles = {}
    /\ everOpened = {}
    /\ deferred = {}
    /\ createLog = <<>>
    /\ processedContent = <<>>
    /\ cleanedLines = <<>>
    /\ stdout = <<"Select the input file:">>
    /\ exitCode = NoExit

\* main.go:34-42: the picker returns an error (dialog.Cancelled included)
PickError ==
    /\ pc = "pick"
    /\ \E e \in {"Error selecting input file: cancelled",
                  "Error selecting input file: failed"} :
          stdout' = Append(stdout, e)
    /\ pc' = "return"
    /\ UNCHANGED <<inputContent, scanPos, scanErr, chineseSentences,
                   englishSentences, combinedSentences, outIdx, wccErr, disk,
                   openHandles, everOpened, deferred, createLog,
                   processedContent, cleanedLines, exitCode, fnVars>>

\* main.go:43-46: the picker returns the empty path
PickEmpty ==
    /\ pc = "pick"
    /\ stdout' = Append(stdout, "No input file selected.")
    /\ pc' = "return"
    /\ UNCHANGED <<inputContent, scanPos, scanErr, chineseSentences,
                   englishSentences, combinedSentences, outIdx, wccErr, disk,
                   openHandles, everOpened, deferred, createLog,
                   processedContent, cleanedLines, exitCode, fnVars>>

\* main.go:47: the picker returns a path
PickOk ==
    /\ pc = "pick"
    /\ stdout' = Append(stdout, "Selected input file")
    /\ pc' = "open"
    /\ UNCHANGED <<inputContent, scanPos, scanErr, chineseSentences,
                   englishSentences, combinedSentences, outIdx, wccErr, disk,
                   openHandles, everOpened, deferred, createLog,
                   processedContent, cleanedLines, exitCode, fnVars>>

\* main.go:54-58: os.Open fails
OpenFail ==
    /\ pc = "open"
    /\ stdout' = Append(stdout, "Error opening input file")
    /\ pc' = "return"
    /\ UNCHANGED <<inputContent, scanPos, scanErr, chineseSentences,
                   englishSentences, combinedSentences, outIdx, wccErr, disk,
                   openHandles, everOpened, deferred, createLog,
                   processedContent, cleanedLines, exitCode, fnVars>>

\* main.go:54-59: os.Open succeeds, defer file.Close()
OpenOk ==
    /\ pc = "open"
    /\ openHandles' = openHandles \cup {"input"}
    /\ everOpened' = everOpened \cup {"input"}
    /\ deferred' = deferred \cup {"input"}
    /\ pc' = "scan"
    /\ UNCHANGED <<inputContent, scanPos, scanErr, chineseSentences,
                   englishSentences, combinedSentences, outIdx, wccErr, disk,
                   createLog, processedContent, cleanedLines, stdout,
                   exitCode, fnVars>>

\* main.go:73-89: scanner.Scan() delivers the next line, the loop body runs
ScanLine ==
    /\ pc = "scan"
    /\ scanPos < Len(ScanLines(inputContent))
    /\ LET line == ScanLines(inputContent)[scanPos + 1]
       IN  /\ chineseSentences' = chineseSentences \o chineseMatches(line)
           /\ englishSentences' = englishSentences \o englishMatches(line)
           /\ combinedSentences' = combinedAfter(combinedSentences, line)
    /\ scanPos' = scanPos + 1
    /\ UNCHANGED <<pc, inputContent, scanErr, outIdx, wccErr, disk,
                   openHandles, everOpened, deferred, createLog,
                   processedContent, cleanedLines, stdout, exitCode, fnVars>>

\* main.go:73: scanner.Scan() returns false on a read error or on a line
\* longer than the scanner's buffer (the model's short lines stand for lines
\* of any length)
ScanFail ==
    /\ pc = "scan"
    /\ scanErr' = TRUE
    /\ pc' = "scanned"
    /\ UNCHANGED <<inputContent, scanPos, chineseSentences, englishSentences,
                   combinedSentences, outIdx, wccErr, disk, openHandles,
                   everOpened, deferred, createLog, processedContent,
                   cleanedLines, stdout, exitCode, fnVars>>

\* main.go:73: scanner.Scan() returns false at the end of the input
ScanEOF ==
    /\ pc = "scan"
    /\ scanPos = Len(ScanLines(inputContent))
    /\ pc' = "scanned"
    /\ UNCHANGED <<inputContent, scanPos, scanErr, chineseSentences,
                   englishSentences, combinedSentences, outIdx, wccErr, disk,
                   openHandles, everOpened, deferred, createLog,
                   processedContent, cleanedLines, stdout, exitCode, fnVars>>

\* main.go:92-95: the check of scanner.Err()
CheckScanErr ==
    /\ pc = "scanned"
    /\ IF scanErr
       THEN /\ stdout' = Append(stdout, "Error reading input file")
            /\ pc' = "return"
            /\ UNCHANGED outIdx
       ELSE /\ pc' = "wccCreate"
            /\ outIdx' = 1
            /\ UNCHANGED stdout
    /\ UNCHANGED <<inputContent, scanPos, scanErr, chineseSentences,
                   englishSentences, combinedSentences, wccErr, disk,
                   openHandles, everOpened, deferred, createLog,
                   processedContent, cleanedLines, exitCode, fnVars>>

\* faulty variant: the file is created without a deferred Close
deferredAfterCreate_NoDefer(d, path) == d

\* main.go:127: defer file.Close() of writeCleanedContent
deferredAfterCreate(d, path) == d \cup {path}

\* faulty variant: main goes on to the next output whatever writeCleanedContent returned
mainContinues_IgnoreErr(err) == TRUE

\* main.go:99, 105, 111: main goes on only when err == nil
mainContinues(err) == ~err

\* main.go:123-126: os.Create fails, writeCleanedContent returns the error
WccCreateFail ==
    /\ pc = "wccCreate"
    /\ createLog' = Append(createLog, Outputs[outIdx])
    /\ wccErr' = TRUE
    /\ pc' = "wccReturn"
    /\ UNCHANGED <<inputContent, scanPos, scanErr, chineseSentences,
                   englishSentences, combinedSentences, outIdx, disk,
                   openHandles, everOpened, deferred, processedContent,
                   cleanedLines, stdout, exitCode, fnVars>>

\* main.go:123-127: os.Create creates or truncates the file
WccCreateOk ==
    /\ pc = "wccCreate"
    /\ createLog' = Append(createLog, Outputs[outIdx])
    /\ disk' = [disk EXCEPT ![Outputs[outIdx]] = [exists |-> TRUE, data |-> <<>>]]
    /\ openHandles' = openHandles \cup {Outputs[outIdx]}
    /\ everOpened' = everOpened \cup {Outputs[outIdx]}
    /\ deferred' = deferredAfterCreate(deferred, Outputs[outIdx])
    /\ pc' = "wccWrite"
    /\ UNCHANGED <<inputContent, scanPos, scanErr, chineseSentences,
                   englishSentences, combinedSentences, outIdx, wccErr,
                   processedContent, cleanedLines, stdout, exitCode, fnVars>>

\* main.go:130-133: writer.WriteString fails while writing through to the
\* file (the model's short contents stand for contents of any size); a
\* proper prefix of the content is in the file
WccWriteFail ==
    /\ pc = "wccWrite"
    /\ LET content == cleanContent(sentencesOf(outIdx))
       IN  /\ Len(content) > 0
           /\ \E n \in 0..(Len(content) - 1) :
                 disk' = [disk EXCEPT ![Outputs[outIdx]].data = SubSeq(content, 1, n)]
    /\ wccErr' = TRUE
    /\ pc' = "wccReturn"
    /\ UNCHANGED <<inputContent, scanPos, scanErr, chineseSentences,
                   englishSentences, combinedSentences, outIdx, openHandles,
                   everOpened, deferred, createLog, processedContent,
                   cleanedLines, stdout, exitCode, fnVars>>

\* main.go:130: writer.WriteString succeeds
WccWriteOk ==
    /\ pc = "wccWrite"
    /\ pc' = "wccFlush"
    /\ UNCHANGED <<inputContent, scanPos, scanErr, chineseSentences,
                   englishSentences, combinedSentences, outIdx, wccErr, disk,
                   openHandles, everOpened, deferred, createLog,
                   processedContent, cleanedLines, stdout, exitCode, fnVars>>

\* main.go:134: writer.Flush fails; a proper prefix of the content is in
\* the file
WccFlushFail ==
    /\ pc = "wccFlush"
    /\ LET content == cleanContent(sentencesOf(outIdx))
       IN  /\ Len(content) > 0
           /\ \E n \in 0..(Len(content) - 1) :
                 disk' = [disk EXCEPT ![Outputs[outIdx]].data = SubSeq(content, 1, n)]
    /\ wccErr' = TRUE
    /\ pc' = "wccReturn"
    /\ UNCHANGED <<inputContent, scanPos, scanErr, chineseSentences,
                   englishSentences, combinedSentences, outIdx, openHandles,
                   everOpened, deferred, createLog, processedContent,
                   cleanedLines, stdout, exitCode, fnVars>>

\* main.go:134: writer.Flush succeeds, the file holds the cleaned content
WccFlushOk ==
    /\ pc = "wccFlush"
    /\ disk' = [disk EXCEPT ![Outputs[outIdx]].data =
                                cleanContent(sentencesOf(outIdx))]
    /\ wccErr' = FALSE
    /\ pc' = "wccReturn"
    /\ UNCHANGED <<inputContent, scanPos, scanErr, chineseSentences,
                   englishSentences, combinedSentences, outIdx, openHandles,
                   everOpened, deferred, createLog, processedContent,
                   cleanedLines, stdout, exitCode, fnVars>>

\* writeCleanedContent returns: its deferred Close runs (main.go:127), then
\* main checks the error (main.go:99-102, 105-108, 111-116)
WccReturn ==
    /\ pc = "wccReturn"
    /\ openHandles' = openHandles \ (deferred \cap {Outputs[outIdx]})
    /\ deferred' = deferred \ {Outputs[outIdx]}
    /\ IF ~mainContinues(wccErr)
       THEN /\ stdout' = Append(stdout, WriteErrorMessage(outIdx))
            /\ pc' = "return"
            /\ UNCHANGED outIdx
       ELSE IF outIdx < 3
       THEN /\ outIdx' = outIdx + 1
            /\ pc' = "wccCreate"
            /\ UNCHANGED stdout
       ELSE /\ outIdx' = outIdx + 1
            /\ stdout' = Append(stdout,
                   "All output files written and cleaned successfully!")
            /\ pc' = "return"
    /\ wccErr' = FALSE
    /\ UNCHANGED <<inputContent, scanPos, scanErr, chineseSentences,
                   englishSentences, combinedSentences, disk, everOpened,
                   createLog, processedContent, cleanedLines, exitCode,
                   fnVars>>

\* func main returns: its deferred file.Close() runs (main.go:59) and the Go
\* runtime ends the process with status 0
MainReturn ==
    /\ pc = "return"
    /\ openHandles' = openHandles \ (deferred \cap {"input"})
    /\ deferred' = deferred \ {"input"}
    /\ exitCode' = 0
    /\ pc' = "exited"
    /\ UNCHANGED <<inputContent, scanPos, scanErr, chineseSentences,
                   englishSentences, combinedSentences, outIdx, wccErr, disk,
                   everOpened, createLog, processedContent, cleanedLines,
                   stdout, fnVars>>

Next ==
    \/ PickError
    \/ PickEmpty
    \/ PickOk
    \/ OpenFail
    \/ OpenOk
    \/ ScanLine
    \/ ScanFail
    \/ ScanEOF
    \/ CheckScanErr
    \/ WccCreateFail
    \/ WccCreateOk
    \/ WccWriteFail
    \/ WccWriteOk
    \/ WccFlushFail
    \/ WccFlushOk
    \/ WccReturn
    \/ MainReturn

Spec == MainInit /\ [][Next]_vars

-----------------------------------------------------------------------------
(* The sibling mode: func main of src/unnamed/part_000 *)

\* an ideograph, two characters of the sibling splitter set, a space, a
\* carriage return, the line terminator
SibAlphabet == {"han", "U+3002", "U+2014", SP, CR, LF}

SibInit ==
    /\ FnIdle
    /\ pc = "sibPick"
    /\ inputContent \in StringsUpTo(SibAlphabet, MaxSibLen)
    /\ scanPos = 0
    /\ scanErr = FALSE
    /\ chineseSentences = <<>>
    /\ englishSentences = <<>>
    /\ combinedSentences = <<>>
    /\ outIdx = 0
    /\ wccErr = FALSE
    /\ disk = InitialDisk
    /\ openHandles = {}
    /\ everOpened = {}
    /\ deferred = {}
    /\ createLog = <<>>
    /\ processedContent = <<>>
    /\ cleanedLines = <<>>
    /\ stdout = <<>>
    /\ exitCode = NoExit

\* part_000:37-44: the picker returns dialog.Cancelled or another error
SibPickError ==
    /\ pc = "sibPick"
    /\ \E e \in {"File selection was cancelled.",
                 "Error selecting input file: failed"} :
          stdout' = Append(stdout, e)
    /\ pc' = "sibReturn"
    /\ UNCHANGED <<inputContent, scanPos, scanErr, chineseSentences,
                   englishSentences, combinedSentences, outIdx, wccErr, disk,
                   openHandles, everOpened, deferred, createLog,
                   processedContent, cleanedLines, exitCode, fnVars>>

\* part_000:47-52: the picker returns a path
SibPickOk ==
    /\ pc = "sibPick"
    /\ stdout' = Append(stdout, "Selected input file")
    /\ pc' = "sibRead"
    /\ UNCHANGED <<inputContent, scanPos, scanErr, chineseSentences,
                   englishSentences, combinedSentences, outIdx, wccErr, disk,
                   openHandles, everOpened, deferred, createLog,
                   processedContent, cleanedLines, exitCode, fnVars>>

\* part_000:55-59: os.ReadFile fails
SibReadFail ==
    /\ pc = "sibRead"
    /\ stdout' = Append(stdout, "Error reading input file")
    /\ pc' = "sibReturn"
    /\ UNCHANGED <<inputContent, scanPos, scanErr, chineseSentences,
                   englishSentences, combinedSentences, outIdx, wccErr, disk,
                   openHandles, everOpened, deferred, createLog,
                   processedContent, cleanedLines, exitCode, fnVars>>

\* part_000:55-65: os.ReadFile succeeds, a newline is inserted after each
\* punctuation mark of the whole content
SibSplit ==
    /\ pc = "sibRead"
    /\ processedContent' = ReplaceAllString(punctuationRegex, inputContent, 1)
    /\ pc' = "sibScan"
    /\ UNCHANGED <<inputContent, scanPos, scanErr, chineseSentences,
                   englishSentences, combinedSentences, outIdx, wccErr, disk,
                   openHandles, everOpened, deferred, createLog,
                   cleanedLines, stdout, exitCode, fnVars>>

\* faulty variant: the line is appended without being trimmed
cleanedAfter_Untrimmed(cleaned, text) ==
    IF TrimSpace(text) # <<>> THEN Append(cleaned, text) ELSE cleaned

\* part_000:71-74: the loop body on the scanned text
cleanedAfter(cleaned, text) ==
    LET line == TrimSpace(text)
    IN  IF line # <<>> THEN Append(cleaned, line) ELSE cleaned

\* part_000:70-75: scanner.Scan() delivers the next line of processedContent
SibScanLine ==
    /\ pc = "sibScan"
    /\ scanPos < Len(ScanLines(processedContent))
    /\ cleanedLines' =
           cleanedAfter(cleanedLines, ScanLines(processedContent)[scanPos + 1])
    /\ scanPos' = scanPos + 1
    /\ UNCHANGED <<pc, inputContent, scanErr, chineseSentences,
                   englishSentences, combinedSentences, outIdx, wccErr, disk,
                   openHandles, everOpened, deferred, createLog,
                   processedContent, stdout, exitCode, fnVars>>

\* part_000:70, 76-79: scanner.Scan() returns false on a line longer than the
\* scanner's buffer (the model's short lines stand for lines of any length)
SibScanFail ==
    /\ pc = "sibScan"
    /\ scanPos < Len(ScanLines(processedContent))
    /\ scanErr' = TRUE
    /\ stdout' = Append(stdout, "Error while removing empty lines")
    /\ pc' = "sibReturn"
    /\ UNCHANGED <<inputContent, scanPos, chineseSentences, englishSentences,
                   combinedSentences, outIdx, wccErr, disk, openHandles,
                   everOpened, deferred, createLog, processedContent,
                   cleanedLines, exitCode, fnVars>>

\* part_000:70, 76: scanner.Scan() returns false at the end, without error
SibScanEOF ==
    /\ pc = "sibScan"
    /\ scanPos = Len(ScanLines(processedContent))
    /\ pc' = "sibWrite"
    /\ UNCHANGED <<inputContent, scanPos, scanErr, chineseSentences,
                   englishSentences, combinedSentences, outIdx, wccErr, disk,
                   openHandles, everOpened, deferred, createLog,
                   processedContent, cleanedLines, stdout, exitCode, fnVars>>

\* part_000:82: cleanedContent
cleanedContent == Join(cleanedLines)

\* part_000:85-89: os.WriteFile fails: the file is untouched, or was created
\* or truncated and holds a proper prefix of the content
SibWriteFail ==
    /\ pc = "sibWrite"
    /\ \/ UNCHANGED disk
       \/ \E n \in 0..Len(cleanedContent) :
             /\ n = 0 \/ n < Len(cleanedContent)
             /\ disk' = [disk EXCEPT ![SiblingOutput] =
                            [exists |-> TRUE,
                             data |-> SubSeq(cleanedContent, 1, n)]]
    /\ stdout' = Append(stdout, "Error writing to output file")
    /\ pc' = "sibReturn"
    /\ UNCHANGED <<inputContent, scanPos, scanErr, chineseSentences,
                   englishSentences, combinedSentences, outIdx, wccErr,
                   openHandles, everOpened, deferred, createLog,
                   processedContent, cleanedLines, exitCode, fnVars>>

\* part_000:85-92: os.WriteFile writes the cleaned content
SibWriteOk ==
    /\ pc = "sibWrite"
    /\ disk' = [disk EXCEPT ![SiblingOutput] =
                   [exists |-> TRUE, data |-> cleanedContent]]
    /\ stdout' = Append(stdout, "Processed file with empty lines removed has been saved")
    /\ pc' = "sibReturn"
    /\ UNCHANGED <<inputContent, scanPos, scanErr, chineseSentences,
                   englishSentences, combinedSentences, outIdx, wccErr,
                   openHandles, everOpened, deferred, createLog,
                   processedContent, cleanedLines, exitCode, fnVars>>

\* func main returns (part_000:43, 58, 78, 88, 93): the Go runtime ends the
\* process with status 0
SibReturn ==
    /\ pc = "sibReturn"
    /\ exitCode' = 0
    /\ pc' = "exited"
    /\ UNCHANGED <<inputContent, scanPos, scanErr, chineseSentences,
                   englishSentences, combinedSentences, outIdx, wccErr, disk,
                   openHandles, everOpened, deferred, createLog,
                   processedContent, cleanedLines, stdout, fnVars>>

SibNext ==
    \/ SibPickError
    \/ SibPickOk
    \/ SibReadFail
    \/ SibSplit
    \/ SibScanLine
    \/ SibScanFail
    \/ SibScanEOF
    \/ SibWriteFail
    \/ SibWriteOk
    \/ SibReturn

SpecSibling == SibInit /\ [][SibNext]_vars

-----------------------------------------------------------------------------
(* Helpers of the properties *)

\* the characters of s that satisfy no membership in class, in order
RECURSIVE Without(_, _)
Without(s, class) ==
    IF Len(s) = 0 THEN <<>>
    ELSE (IF s[1] \in class THEN <<>> ELSE <<s[1]>>) \o Without(Tail(s), class)

\* the characters of s that are in class, in order
Only(s, class) == SelectSeq(s, LAMBDA c : c \in class)

\* the concatenation of a list of strings
RECURSIVE Concat(_)
Concat(ss) == IF Len(ss) = 0 THEN <<>> ELSE ss[1] \o Concat(Tail(ss))

\* the lines of a file content: an empty file has no line
LinesOf(content) == IF content = <<>> THEN <<>> ELSE Split(content)

\* number of characters of class among the first i characters of s
CountIn(s, class, i) == Cardinality({k \in 1..i : s[k] \in class})

\* the maximal runs of class characters of s, as <<first, last>>
MaximalRuns(s, class) ==
    {r \in (1..Len(s)) \X (1..Len(s)) :
        /\ r[1] <= r[2]
        /\ \A k \in r[1]..r[2] : s[k] \in class
        /\ (r[1] = 1 \/ s[r[1] - 1] \notin class)
        /\ (r[2] = Len(s) \/ s[r[2] + 1] \notin class)}

\* segs is the list of the maximal runs of class in line, left to right,
\* and every class character lies in exactly one of them
IsMaximalRunList(segs, line, class) ==
    LET R == MaximalRuns(line, class)
    IN  /\ Len(segs) = Cardinality(R)
        /\ \E f \in [1..Len(segs) -> R] :
              /\ \A k \in 1..Len(segs) : segs[k] = SubSeq(line, f[k][1], f[k][2])
              /\ \A k \in 1..(Len(segs) - 1) : f[k][2] < f[k + 1][1]
              /\ \A p \in 1..Len(line) :
                    line[p] \in class =>
                        Cardinality({k \in 1..Len(segs) :
                                        f[k][1] <= p /\ p <= f[k][2]}) = 1
        /\ \A k \in 1..Len(segs) :
              /\ segs[k] # <<>>
              /\ \A q \in 1..Len(segs[k]) : segs[k][q] \in class
        /\ Concat(segs) = Only(line, class)

-----------------------------------------------------------------------------
(* Properties of the functions *)

\* C4: the cleaner is idempotent: the cleaner applied to cleaner(b) returns
\* exactly cleaner(b), for every buffer b.
C4_CleanerIdempotent == fnStage = "clean2" => fnOut = fnPrev

\* a buffer with surrounding whitespace, a punctuation-only line and an empty
\* line went through the cleaner twice and something was left
C4_Witness ==
    /\ fnStage = "clean2"
    /\ fnIn = <<SP, "a", LF, ".">>
    /\ fnOut = <<"a">>

\* C5: for every line and each class the extractor returns exactly the
\* maximal non-empty runs of class characters, left to right; every class
\* character lies in exactly one segment and the concatenated segments are
\* the class characters of the line in order (a subsequence of the line).
C5_ExtractorMaximalRuns ==
    /\ fnStage = "chinese" => IsMaximalRunList(fnSegs, fnIn, chineseSentenceRegex)
    /\ fnStage = "english" => IsMaximalRunList(fnSegs, fnIn, englishSentenceRegex)

\* a line with two Latin runs separated by an ideograph was extracted
C5_Witness ==
    /\ fnStage = "english"
    /\ fnIn = <<"a", ".", "han", "a">>
    /\ fnSegs = << <<"a", ".">>, <<"a">> >>

\* C6: splitAfterPunctuation(b) is b with one line terminator inserted
\* immediately after each splitter character and nothing else changed: every
\* character of b keeps its place shifted by the number of splitter
\* characters before it, and each splitter character is followed by an
\* inserted terminator, also when a terminator already follows it and for
\* each character of a run.
C6_SplitInsertsTerminators ==
    fnStage = "split" =>
        /\ Len(fnOut) = Len(fnIn) + CountIn(fnIn, splitPattern, Len(fnIn))
        /\ \A i \in 1..Len(fnIn) :
              LET at == i + CountIn(fnIn, splitPattern, i - 1)
              IN  /\ fnOut[at] = fnIn[i]
                  /\ fnIn[i] \in splitPattern => fnOut[at + 1] = LF

\* a run of two splitter characters and a splitter already followed by a
\* terminator were split
C6_Witness ==
    /\ fnStage = "split"
    /\ fnIn = <<"U+FF0C", "U+FF0C", ".", LF>>
    /\ fnOut = <<"U+FF0C", LF, "U+FF0C", LF, ".", LF, LF>>

-----------------------------------------------------------------------------
(* Properties of the main mode *)

\* number of occurrences of character c in s
CountOf(s, c) == Cardinality({k \in 1..Len(s) : s[k] = c})

\* the characters of s
CharsOf(s) == {s[k] : k \in 1..Len(s)}

\* the last message printed
LastMessage == IF stdout = <<>> THEN "" ELSE stdout[Len(stdout)]

\* the messages of the failures that are no cancellation of the picker
FailureMessages ==
    {"Error selecting input file: failed", "Error opening input file",
     "Error reading input file", "Error writing to Chinese sentences file",
     "Error writing to English sentences file",
     "Error writing to Combined sentences file"}

\* output k was written completely by this run
Written(k) == k < outIdx

\* the whole input has been read without error
InputRead ==
    /\ "input" \in everOpened
    /\ pc \notin {"scan"}
    /\ ~scanErr
    /\ scanPos = Len(ScanLines(inputContent))

\* the segments of the lines, in the order the Combined list is specified
\* to hold them, each tagged with its class
RECURSIVE TaggedSegments(_)
TaggedSegments(lines) ==
    IF Len(lines) = 0 THEN <<>>
    ELSE LET zh == FindAllString(chineseSentenceRegex, lines[1])
             en == FindAllString(englishSentenceRegex, lines[1])
         IN  [k \in 1..Len(zh) |-> [tag |-> "zh", seg |-> zh[k]]]
             \o [k \in 1..Len(en) |-> [tag |-> "en", seg |-> en[k]]]
             \o TaggedSegments(Tail(lines))

SegmentsOf(tagged) == [k \in 1..Len(tagged) |-> tagged[k].seg]

\* C1: if the picker fails (no cancellation), the input cannot be opened or
\* read, or an output cannot be created or written, the run ends with a
\* non-zero exit status; status 0 only after full success or a cancelled
\* picker.
C1_FailureExitsNonZero ==
    pc = "exited" =>
        /\ (\E k \in 1..Len(stdout) : stdout[k] \in FailureMessages)
              => exitCode # 0
        /\ exitCode = 0 =>
              LastMessage \in
                  {"All output files written and cleaned successfully!",
                   "Error selecting input file: cancelled",
                   "No input file selected."}

\* C2: every line of each output the pipeline wrote is non-empty, has no
\* leading or trailing whitespace and is not made of punctuation-only-filter
\* characters alone.
C2_EmittedLinesClean ==
    \A k \in 1..3 :
        Written(k) =>
            LET lines == LinesOf(disk[Outputs[k]].data)
            IN  \A n \in 1..Len(lines) :
                    /\ lines[n] # <<>>
                    /\ lines[n][1] \notin GoSpace
                    /\ lines[n][Len(lines[n])] \notin GoSpace
                    /\ \E q \in 1..Len(lines[n]) :
                          lines[n][q] \notin punctuationOnlyRegex

\* the Latin output kept "a." of the segment "a.. " and lost the
\* punctuation-only line and the blank line; the Chinese output is empty
C2_Witness ==
    /\ pc = "exited"
    /\ outIdx = 4
    /\ inputContent = <<"a", ".", ".", SP>>
    /\ disk[Outputs[1]].data = <<>>
    /\ disk[Outputs[2]].data = <<"a", ".">>

\* C3: the characters of the Combined output, line terminators aside, are
\* as a multiset the sum of the characters of the Chinese and of the Latin
\* output.
C3_CombinedIsSum ==
    Written(3) =>
        LET zh == disk[Outputs[1]].data
            en == disk[Outputs[2]].data
            both == disk[Outputs[3]].data
        IN  \A c \in (CharsOf(zh) \cup CharsOf(en) \cup CharsOf(both)) \ {LF} :
                CountOf(both, c) = CountOf(zh, c) + CountOf(en, c)

\* the digit of "han a 1" is in both classes and twice in the Combined output
C3_Witness ==
    /\ pc = "exited"
    /\ outIdx = 4
    /\ inputContent = <<"han", "a", "1">>
    /\ disk[Outputs[1]].data = <<"han", LF, "1">>
    /\ disk[Outputs[2]].data = <<"a", "1">>
    /\ disk[Outputs[3]].data = <<"han", LF, "1", LF, "a", "1">>

\* C7: after the input has been read, the Combined list holds, line by line
\* in input order, the Chinese segments of the line then its Latin segments;
\* the Chinese and the Latin list are the Combined list restricted to their
\* own segments, in the same order.
C7_CombinedOrder ==
    InputRead =>
        LET t == TaggedSegments(ScanLines(inputContent))
        IN  /\ combinedSentences = SegmentsOf(t)
            /\ chineseSentences =
                   SegmentsOf(SelectSeq(t, LAMBDA x : x.tag = "zh"))
            /\ englishSentences =
                   SegmentsOf(SelectSeq(t, LAMBDA x : x.tag = "en"))

\* two lines were read, the first with a Latin run before a Chinese one
C7_Witness ==
    /\ InputRead
    /\ inputContent = <<"a", "han", LF, "1">>
    /\ combinedSentences = << <<"han">>, <<"a">>, <<"1">>, <<"1">> >>
    /\ chineseSentences = << <<"han">>, <<"1">> >>
    /\ englishSentences = << <<"a">>, <<"1">> >>

\* C9: os.Create is called for the outputs in the order Chinese, Latin,
\* Combined, each at most once and only after the whole input was read
\* without error; before the first call the output paths are untouched; an
\* output is attempted only when every earlier output holds its complete
\* content, which it keeps whatever happens later; the outputs not yet
\* attempted are untouched.
C9_SerialOutputs ==
    /\ Len(createLog) <= 3
    /\ \A k \in 1..Len(createLog) : createLog[k] = Outputs[k]
    /\ createLog # <<>> => InputRead
    /\ createLog = <<>> => disk = InitialDisk
    /\ \A k \in 1..Len(createLog) : \A j \in 1..(k - 1) :
          disk[Outputs[j]] =
              [exists |-> TRUE, data |-> cleanContent(sentencesOf(j))]
    /\ \A j \in (Len(createLog) + 1)..3 :
          disk[Outputs[j]] = InitialDisk[Outputs[j]]

\* the Latin output failed after the Chinese output was written: the
\* Chinese output is on disk, the Combined output still holds its old data
C9_Witness ==
    /\ pc = "exited"
    /\ LastMessage = "Error writing to English sentences file"
    /\ inputContent = <<"han", "a">>
    /\ createLog = <<Outputs[1], Outputs[2]>>
    /\ disk[Outputs[1]] = [exists |-> TRUE, data |-> <<"han">>]
    /\ disk[Outputs[2]] = [exists |-> TRUE, data |-> <<>>]
    /\ disk[Outputs[3]] = [exists |-> TRUE, data |-> OldData]

\* C10: at most one output handle is open at any moment, and when the run
\* has ended every handle opened during it has been closed.
C10_HandlesClosed ==
    /\ Cardinality(openHandles \ {"input"}) <= 1
    /\ pc = "exited" => openHandles = {}

\* the run ended on a failed flush of the Latin output with the input and
\* two output handles opened during it
C10_Witness ==
    /\ pc = "exited"
    /\ LastMessage = "Error writing to English sentences file"
    /\ everOpened = {"input", Outputs[1], Outputs[2]}
    /\ openHandles = {}

-----------------------------------------------------------------------------
(* Properties of the sibling mode *)

\* C8: in the content the sibling mode wrote, every character of the sibling
\* splitter set ends its line, no line is empty or has leading or trailing
\* whitespace, the content does not end with a line terminator, and the
\* non-whitespace characters are those of the input, in order.
C8_SiblingOutput ==
    LastMessage = "Processed file with empty lines removed has been saved" =>
        LET out == disk[SiblingOutput].data
            lines == LinesOf(out)
        IN  /\ \A i \in 1..Len(out) :
                  out[i] \in punctuationRegex =>
                      (i = Len(out) \/ out[i + 1] = LF)
            /\ \A n \in 1..Len(lines) :
                  /\ lines[n] # <<>>
                  /\ lines[n][1] \notin GoSpace
                  /\ lines[n][Len(lines[n])] \notin GoSpace
            /\ (out # <<>> => out[Len(out)] # LF)
            /\ Without(out, GoSpace) = Without(inputContent, GoSpace)

\* two sentences on one line were written on two lines
C8_Witness ==
    /\ pc = "exited"
    /\ inputContent = <<"han", "U+3002", SP, "han">>
    /\ disk[SiblingOutput] =
           [exists |-> TRUE, data |-> <<"han", "U+3002", LF, "han">>]

=============================================================================
